---- MODULE Spec2Model ----
(***************************************************************************)
(* A model of grudge/function_registry.py: the Function variants, the      *)
(* per-instance kernel cache of CElementwiseUnaryFunction.__call__, the    *)
(* copy-on-extend FunctionRegistry, the module-level base registry and     *)
(* register_external_function.                                             *)
(*                                                                         *)
(* Python objects live in heaps (sequences indexed by object identity):    *)
(* `functions` (Function instances), `memo` (what memoize_in attached to   *)
(* each instance), `dicts` (dict objects) and `registries`                 *)
(* (FunctionRegistry instances, each holding a reference to a dict).       *)
(* A Python dict is a set of [key, value] entries with unique keys.        *)
(* numpy, loopy and pytools.memoize_in are libraries: a numpy value and a  *)
(* kernel's output are terms over their inputs, and memoize_in(obj, name)  *)
(* is a cache kept on obj under name.                                      *)
(***************************************************************************)
EXTENDS Integers, Sequences, FiniteSets, TLC

VARIABLES
    pc,                      \* "make_bfr" while the module is imported; then
                             \* "ready" (the consumer is about to make a call)
                             \* or "returned" (it holds the outcome of one)
    bfr,                     \* the local variable bfr of _make_bfr
    base_function_registry,  \* the module global (0 until it is assigned)
    functions,               \* heap of Function instances
    memo,                    \* memo[f]: the cache memoize_in keeps on instance f
    builds,                  \* builds[f]: the lp.make_kernel calls made for f
    dicts,                   \* heap of dict objects
    registries,              \* heap of FunctionRegistry instances
    ret,                     \* the call just made: its inputs, its outcome and
                             \* whether it ran lp.make_kernel
    threads                  \* threads[t]: where thread t is in the call it is
                             \* making, its local variables and the outcome of
                             \* the call it made last

vars == <<pc, bfr, base_function_registry, functions, memo, builds, dicts,
          registries, ret, threads>>

\* ------------------------------------------------------------------ bounds

\* Function instances constructed by consumers (beyond the seven of _make_bfr).
MaxFunctions == 1
\* Registries derived by consumers (beyond those _make_bfr creates).
MaxRegistries == 2
\* Cap on the number of kernel builds recorded per Function instance.
MaxBuilds == 2

\* ------------------------------------------------------------------ inputs

None == "None"
Descriptors == {"DD1", "DD2"}
Implementations == {"impl"}

\* Argument values: a Python float, a zero-dimensional ndarray, an ndarray.
NumberArg == [type |-> "float", shape |-> <<>>, data |-> <<-1>>]
ZeroDimArg == [type |-> "ndarray", shape |-> <<>>, data |-> <<-1>>]
ArrayArg == [type |-> "ndarray", shape |-> <<2>>, data |-> <<-1, 1>>]

NoKwargs == {}
SomeKwargs == {[key |-> "order", value |-> NumberArg]}

\* The (queue, *args, **kwargs) consumers call Functions with.
CallInputs ==
    { [queue |-> "queue1", args |-> <<NumberArg>>, kwargs |-> NoKwargs],
      [queue |-> "queue2", args |-> <<ZeroDimArg>>, kwargs |-> NoKwargs],
      [queue |-> "queue1", args |-> <<ArrayArg>>, kwargs |-> NoKwargs],
      [queue |-> "queue2", args |-> <<ArrayArg>>, kwargs |-> NoKwargs],
      [queue |-> "queue1", args |-> <<>>, kwargs |-> NoKwargs],
      [queue |-> "queue2", args |-> <<NumberArg, ArrayArg>>, kwargs |-> SomeKwargs] }

\* The arg_dds lists consumers pass to get_result_dofdesc.
DescriptorLists ==
    { <<>>, <<"DD1">>, <<"DD2">>, <<"DD1", "DD2">>, <<"DD2", "DD1">>,
      <<"DD1", "DD2", "DD1">> }

\* Identifiers of the Function instances consumers invoke.
Identifiers == {"sin", "fabs", "bessel_j", "abs", "myfunc"}

\* Identifiers consumers look up in registries.
LookupIdentifiers == {"sin", "abs", "myfunc"}

\* ------------------------------------------------------------------ dicts

DictKeys(d) == {e.key : e \in d}
DictHas(d, k) == \E e \in d : e.key = k
DictGet(d, k) == (CHOOSE e \in d : e.key = k).value
DictSet(d, k, v) == {e \in d : e.key # k} \cup {[key |-> k, value |-> v]}

\* ------------------------------------------------------------------ Function variants

CElementwiseUnaryFunction(identifier) ==
    [cls |-> "CElementwiseUnaryFunction", identifier |-> identifier,
     implementation |-> None, dd |-> None]

CBesselFunction(identifier) ==
    [cls |-> "CBesselFunction", identifier |-> identifier,
     implementation |-> None, dd |-> None]

FixedDOFDescExternalFunction(identifier, implementation, dd) ==
    [cls |-> "FixedDOFDescExternalFunction", identifier |-> identifier,
     implementation |-> implementation, dd |-> dd]

\* The outcome of a call: a returned value or a raised exception.
Return(v) == [exc |-> None, val |-> v]
Raise(e) == [exc |-> e, val |-> None]

\* ------------------------------------------------------------------ FunctionRegistry

\* A register that starts the new registry from an empty dict.
dict_copy_empty(ds, ref) == [dicts |-> Append(ds, {}), ref |-> Len(ds) + 1]

\* A register that extends the receiver's dict in place (no copy).
dict_copy_alias(ds, ref) == [dicts |-> ds, ref |-> ref]

\* dict.copy(): a new dict object with the same entries.
dict_copy(ds, ref) == [dicts |-> Append(ds, ds[ref]), ref |-> Len(ds) + 1]

\* A register that builds the new registry first and checks for the duplicate
\* last, leaving the registry it built behind when it raises.
register_check_last(h, self, function) ==
    LET identifier == h.functions[function].identifier
        id_to_function == h.registries[self].id_to_function
        c == dict_copy(h.dicts, id_to_function)
        ds == [c.dicts EXCEPT ![c.ref] = DictSet(@, identifier, function)]
        rs == Append(h.registries, [id_to_function |-> c.ref])
    IN  IF DictHas(h.dicts[id_to_function], identifier)
        THEN [exc |-> "ValueError", val |-> None, dicts |-> ds, registries |-> rs]
        ELSE [exc |-> None, val |-> Len(h.registries) + 1,
              dicts |-> ds, registries |-> rs]

\* A register without the duplicate check: it rebinds the identifier.
register_overwrite(h, self, function) ==
    LET identifier == h.functions[function].identifier
        c == dict_copy(h.dicts, h.registries[self].id_to_function)
    IN  [exc |-> None, val |-> Len(h.registries) + 1,
         dicts |-> [c.dicts EXCEPT ![c.ref] = DictSet(@, identifier, function)],
         registries |-> Append(h.registries, [id_to_function |-> c.ref])]

\* FunctionRegistry.register(self, function) on the heap h = [functions, dicts,
\* registries]: the outcome and the dict and registry heaps after the call.
register(h, self, function) ==
    LET identifier == h.functions[function].identifier
        id_to_function == h.registries[self].id_to_function
    IN  IF DictHas(h.dicts[id_to_function], identifier)
        THEN [exc |-> "ValueError", val |-> None,
              dicts |-> h.dicts, registries |-> h.registries]
        ELSE LET c == dict_copy(h.dicts, id_to_function)
                 new_id_to_function == c.ref
                 ds == [c.dicts EXCEPT ![new_id_to_function] =
                            DictSet(@, identifier, function)]
             IN  [exc |-> None, val |-> Len(h.registries) + 1,
                  dicts |-> ds,
                  registries |-> Append(h.registries,
                                    [id_to_function |-> new_id_to_function])]

\* A __getitem__ that lets the dict's KeyError through.
getitem_keyerror(ds, rs, self, function_id) ==
    IF DictHas(ds[rs[self].id_to_function], function_id)
    THEN Return(DictGet(ds[rs[self].id_to_function], function_id))
    ELSE Raise("KeyError")

\* FunctionRegistry.__getitem__(self, function_id)
getitem(ds, rs, self, function_id) ==
    IF DictHas(ds[rs[self].id_to_function], function_id)
    THEN Return(DictGet(ds[rs[self].id_to_function], function_id))
    ELSE Raise("FunctionNotFound")

\* FunctionRegistry.__contains__(self, function_id)
contains(ds, rs, self, function_id) ==
    Return(DictHas(ds[rs[self].id_to_function], function_id))

\* ------------------------------------------------------------------ module import

\* The Function instances _make_bfr constructs, in order.
BfrFunctions ==
    << CElementwiseUnaryFunction("sqrt"),
       CElementwiseUnaryFunction("exp"),
       CElementwiseUnaryFunction("fabs"),
       CElementwiseUnaryFunction("sin"),
       CElementwiseUnaryFunction("cos"),
       CBesselFunction("bessel_j"),
       CBesselFunction("bessel_y") >>

\* The threads of a consumer that shares the base registry and its Function
\* instances among threads.
Threads == {"t1", "t2", "t3"}

\* A thread that has made no call yet. Each thread makes one call, at any time
\* with respect to the calls of the others.
ThreadIdle ==
    [pc |-> "idle", function |-> 0, id_to_function |-> 0, knl |-> None,
     out |-> [op |-> "idle", args |-> <<>>, exc |-> None, val |-> None,
              built |-> FALSE]]

\* State after `bfr = FunctionRegistry()`: one registry over one empty dict.
Init ==
    /\ pc = "make_bfr"
    /\ bfr = 1
    /\ base_function_registry = 0
    /\ functions = <<>>
    /\ memo = <<>>
    /\ builds = <<>>
    /\ dicts = << {} >>
    /\ registries = << [id_to_function |-> 1] >>
    /\ ret = [op |-> "FunctionRegistry", args |-> <<>>, exc |-> None, val |-> 1,
             built |-> FALSE]
    /\ threads = [t \in Threads |-> ThreadIdle]

\* One `bfr = bfr.register(<Function>(<identifier>))` line of _make_bfr.
MakeBfrStep ==
    /\ pc = "make_bfr"
    /\ Len(functions) < Len(BfrFunctions)
    /\ LET function == Len(functions) + 1
           fs == Append(functions, BfrFunctions[function])
           r == register([functions |-> fs, dicts |-> dicts,
                          registries |-> registries], bfr, function)
       IN  /\ functions' = fs
           /\ memo' = Append(memo, {})
           /\ builds' = Append(builds, <<>>)
           /\ dicts' = r.dicts
           /\ registries' = r.registries
           /\ ret' = [op |-> "register", args |-> <<bfr, function>>,
                      exc |-> r.exc, val |-> r.val,
                      built |-> FALSE]
           /\ IF r.exc = None
              THEN bfr' = r.val /\ pc' = pc
              ELSE bfr' = bfr /\ pc' = "import_error"
    /\ UNCHANGED <<threads, base_function_registry>>

\* `return bfr` and `base_function_registry = _make_bfr()`.
MakeBfrReturn ==
    /\ pc = "make_bfr"
    /\ Len(functions) = Len(BfrFunctions)
    /\ base_function_registry' = bfr
    /\ pc' = "ready"
    /\ ret' = [op |-> "_make_bfr", args |-> <<>>, exc |-> None, val |-> bfr,
               built |-> FALSE]
    /\ UNCHANGED <<threads, bfr, functions, memo, builds, dicts, registries>>

\* ------------------------------------------------------------------ consumers

\* Registries a consumer holds: the base registry and those derived from it.
ConsumerRegistries ==
    {base_function_registry} \cup
        {r \in DOMAIN registries : r > Len(BfrFunctions) + 1}

NumConsumerRegistries == Len(registries) - (Len(BfrFunctions) + 1)
NumConsumerFunctions == Len(functions) - Len(BfrFunctions)

\* The Function instances consumers construct themselves.
ConsumerFunctions ==
    { CElementwiseUnaryFunction("sin"),
      CElementwiseUnaryFunction("abs") }

\* A consumer constructs a Function instance.
NewFunction(fn) ==
    /\ pc = "ready"
    /\ pc' = "returned"
    /\ NumConsumerFunctions < MaxFunctions
    /\ functions' = Append(functions, fn)
    /\ memo' = Append(memo, {})
    /\ builds' = Append(builds, <<>>)
    /\ ret' = [op |-> "Function", args |-> <<fn>>, exc |-> None,
               val |-> Len(functions) + 1, built |-> FALSE]
    /\ UNCHANGED <<threads, bfr, base_function_registry, dicts, registries>>

\* A consumer calls self.register(function).
Register(self, function) ==
    /\ pc = "ready"
    /\ pc' = "returned"
    /\ LET r == register([functions |-> functions, dicts |-> dicts,
                          registries |-> registries], self, function)
       IN  /\ r.exc = None => NumConsumerRegistries < MaxRegistries
           /\ dicts' = r.dicts
           /\ registries' = r.registries
           /\ ret' = [op |-> "register", args |-> <<self, function>>,
                      exc |-> r.exc, val |-> r.val,
                      built |-> FALSE]
    /\ UNCHANGED <<threads, bfr, base_function_registry, functions, memo, builds>>

\* register_external_function(function_registry, identifier, implementation, dd).
\* The instance it constructs is kept on the heap only when register returns.
register_external_function(function_registry, identifier, implementation, dd) ==
    /\ pc = "ready"
    /\ pc' = "returned"
    /\ LET function == Len(functions) + 1
           fs == Append(functions,
                     FixedDOFDescExternalFunction(identifier, implementation, dd))
           r == register([functions |-> fs, dicts |-> dicts,
                          registries |-> registries], function_registry, function)
       IN  /\ r.exc = None =>
                /\ NumConsumerRegistries < MaxRegistries
                /\ NumConsumerFunctions < MaxFunctions
           /\ functions' = IF r.exc = None THEN fs ELSE functions
           /\ memo' = IF r.exc = None THEN Append(memo, {}) ELSE memo
           /\ builds' = IF r.exc = None THEN Append(builds, <<>>) ELSE builds
           /\ dicts' = r.dicts
           /\ registries' = r.registries
           /\ ret' = [op |-> "register_external_function",
                      args |-> <<function_registry, identifier, implementation, dd>>,
                      exc |-> r.exc, val |-> r.val,
                      built |-> FALSE]
    /\ UNCHANGED <<threads, bfr, base_function_registry>>

\* A consumer evaluates self[function_id].
GetItem(self, function_id) ==
    /\ pc = "ready"
    /\ pc' = "returned"
    /\ LET r == getitem(dicts, registries, self, function_id)
       IN  ret' = [op |-> "getitem", args |-> <<self, function_id>>,
                   exc |-> r.exc, val |-> r.val,
                      built |-> FALSE]
    /\ UNCHANGED <<threads, bfr, base_function_registry, functions, memo, builds,
                   dicts, registries>>

\* A consumer evaluates `function_id in self`.
Contains(self, function_id) ==
    /\ pc = "ready"
    /\ pc' = "returned"
    /\ LET r == contains(dicts, registries, self, function_id)
       IN  ret' = [op |-> "contains", args |-> <<self, function_id>>,
                   exc |-> r.exc, val |-> r.val,
                      built |-> FALSE]
    /\ UNCHANGED <<threads, bfr, base_function_registry, functions, memo, builds,
                   dicts, registries>>

\* ------------------------------------------------------------------ Function.__call__

\* The names getattr(np, func_name) resolves among the identifiers used here.
NumpyNames == {"sqrt", "exp", "fabs", "sin", "cos", "abs"}

\* A scalar test that forgets zero-dimensional arrays.
IsScalar_number_only(arg) == arg.type = "float"

\* isinstance(arg, Number) or (isinstance(arg, np.ndarray) and arg.shape == ())
IsScalar(arg) ==
    \/ arg.type = "float"
    \/ (arg.type = "ndarray" /\ arg.shape = <<>>)

\* getattr(np, func_name)(arg): the value numpy's func_name has at arg.
np_call(func_name, arg) ==
    IF func_name \in NumpyNames
    THEN Return([np |-> func_name, x |-> arg.data[1]])
    ELSE Raise("AttributeError")

\* An array path without the remap of "fabs".
func_name_of_no_remap(identifier) == identifier

\* func_name on the array path: the identifier, except that "fabs" is "abs".
func_name_of(identifier) == IF identifier = "fabs" THEN "abs" ELSE identifier

\* cached_name = "map_call_knl_" + func_name
cached_name_of(identifier) == "map_call_knl_" \o func_name_of(identifier)

\* Inner length of lp.split_iname(knl, "i", 128, ...).
SplitLength == 128

\* The body of knl(): the kernel out[i] = func_name(a[i]), split by 128.
\* `id` is the identity of the kernel object: the instance it was built for
\* and the number of that build.
make_kernel(func_name, self, n) ==
    [domain |-> "{[i]: 0<=i<n}", lhs |-> "out[i]", op |-> func_name,
     rhs |-> "a[i]", split |-> SplitLength, id |-> <<self, n>>]

\* A knl() that is not memoized: every array-path invocation builds a kernel
\* and stores it over the cached one.
memoized_knl_rebuild(m, b, self, cached_name, func_name, queue) ==
    LET k == make_kernel(func_name, self, Len(b[self]) + 1)
    IN  [memo |-> [m EXCEPT ![self] = DictSet(@, cached_name, k)],
         builds |-> [b EXCEPT ![self] =
                        Append(@, [op |-> func_name, queue |-> queue])],
         value |-> k]

\* A knl() memoized per queue as well: the cache key carries the queue.
memoized_knl_per_queue(m, b, self, cached_name, func_name, queue) ==
    IF DictHas(m[self], cached_name \o queue)
    THEN [memo |-> m, builds |-> b,
          value |-> DictGet(m[self], cached_name \o queue)]
    ELSE LET k == make_kernel(func_name, self, Len(b[self]) + 1)
         IN  [memo |-> [m EXCEPT ![self] = DictSet(@, cached_name \o queue, k)],
              builds |-> [b EXCEPT ![self] =
                             Append(@, [op |-> func_name, queue |-> queue])],
              value |-> k]

\* A knl() memoized in one cache all instances share (that of instance 1)
\* instead of on self.
memoized_knl_shared(m, b, self, cached_name, func_name, queue) ==
    IF DictHas(m[1], cached_name)
    THEN [memo |-> m, builds |-> b, value |-> DictGet(m[1], cached_name)]
    ELSE LET k == make_kernel(func_name, self, Len(b[self]) + 1)
         IN  [memo |-> [m EXCEPT ![1] = DictSet(@, cached_name, k)],
              builds |-> [b EXCEPT ![self] =
                             Append(@, [op |-> func_name, queue |-> queue])],
              value |-> k]

\* @memoize_in(self, cached_name) def knl(): ...; knl()
\* The kernel cached on self under cached_name, built and stored if absent;
\* builds[self] logs each build with the queue of the invocation that made it.
memoized_knl(m, b, self, cached_name, func_name, queue) ==
    IF DictHas(m[self], cached_name)
    THEN [memo |-> m, builds |-> b, value |-> DictGet(m[self], cached_name)]
    ELSE LET k == make_kernel(func_name, self, Len(b[self]) + 1)
         IN  [memo |-> [m EXCEPT ![self] = DictSet(@, cached_name, k)],
              builds |-> [b EXCEPT ![self] =
                             Append(@, [op |-> func_name, queue |-> queue])],
              value |-> k]

\* knl()(queue, a=arg): the output array of running kernel k on queue.
run_kernel(k, queue, arg) ==
    [knl |-> k, queue |-> queue, shape |-> arg.shape,
     data |-> [i \in DOMAIN arg.data |-> <<k.op, arg.data[i]>>]]

\* CElementwiseUnaryFunction.__call__(self, queue, arg)
elementwise_call(fs, m, b, self, queue, arg) ==
    LET func_name == fs[self].identifier
    IN  IF IsScalar(arg)
        THEN [memo |-> m, builds |-> b, out |-> np_call(func_name, arg)]
        ELSE LET c == memoized_knl(m, b, self, cached_name_of(fs[self].identifier),
                                   func_name_of(fs[self].identifier), queue)
             IN  [memo |-> c.memo, builds |-> c.builds,
                  out |-> Return(run_kernel(c.value, queue, arg))]

\* A base __call__ that returns None instead of raising.
function_call_returns(fs, self, queue, args, kwargs) == Return(None)

\* Function.__call__(self, queue, *args, **kwargs): the base class, which
\* CBesselFunction inherits.
function_call(fs, self, queue, args, kwargs) ==
    Raise("TypeError: not callable")

\* An external call that drops the keyword arguments.
external_call_no_kwargs(fs, self, queue, args, kwargs) ==
    Return([implementation |-> fs[self].implementation,
            queue |-> queue, args |-> args, kwargs |-> NoKwargs])

\* FixedDOFDescExternalFunction.__call__(self, queue, *args, **kwargs): what the
\* wrapped implementation returns for the arguments it is handed.
external_call(fs, self, queue, args, kwargs) ==
    Return([implementation |-> fs[self].implementation,
            queue |-> queue, args |-> args, kwargs |-> kwargs])

\* function(queue, *args, **kwargs), dispatched on the class of the instance.
\* CElementwiseUnaryFunction.__call__ takes exactly one positional arg.
call(fs, m, b, self, queue, args, kwargs) ==
    CASE fs[self].cls = "CElementwiseUnaryFunction" ->
            IF Len(args) = 1 /\ kwargs = NoKwargs
            THEN elementwise_call(fs, m, b, self, queue, args[1])
            ELSE [memo |-> m, builds |-> b, out |-> Raise("TypeError: arguments")]
      [] fs[self].cls = "FixedDOFDescExternalFunction" ->
            [memo |-> m, builds |-> b,
             out |-> external_call(fs, self, queue, args, kwargs)]
      [] OTHER ->
            [memo |-> m, builds |-> b,
             out |-> function_call(fs, self, queue, args, kwargs)]

\* ------------------------------------------------------------------ get_result_dofdesc

\* A get_result_dofdesc without the arity check on longer lists.
elementwise_get_result_dofdesc_unchecked(arg_dds) ==
    IF Len(arg_dds) >= 1 THEN Return(arg_dds[1]) ELSE Raise("IndexError")

\* CElementwiseUnaryFunction.get_result_dofdesc(self, arg_dds)
elementwise_get_result_dofdesc(arg_dds) ==
    IF Len(arg_dds) = 1 THEN Return(arg_dds[1]) ELSE Raise("AssertionError")

\* A get_result_dofdesc that returns the first argument's descriptor.
bessel_get_result_dofdesc_first(arg_dds) ==
    IF Len(arg_dds) = 2 THEN Return(arg_dds[1]) ELSE Raise("AssertionError")

\* CBesselFunction.get_result_dofdesc(self, arg_dds)
bessel_get_result_dofdesc(arg_dds) ==
    IF Len(arg_dds) = 2 THEN Return(arg_dds[2]) ELSE Raise("AssertionError")

\* FixedDOFDescExternalFunction.get_result_dofdesc(self, arg_dds)
external_get_result_dofdesc(fs, self, arg_dds) == Return(fs[self].dd)

\* function.get_result_dofdesc(arg_dds), dispatched on the class.
get_result_dofdesc(fs, self, arg_dds) ==
    CASE fs[self].cls = "CElementwiseUnaryFunction" ->
            elementwise_get_result_dofdesc(arg_dds)
      [] fs[self].cls = "CBesselFunction" ->
            bessel_get_result_dofdesc(arg_dds)
      [] fs[self].cls = "FixedDOFDescExternalFunction" ->
            external_get_result_dofdesc(fs, self, arg_dds)
      [] OTHER -> Raise("NotImplementedError")

\* ------------------------------------------------------------------ consumers of Functions

\* Function instances consumers invoke.
CallTargets == {f \in DOMAIN functions : functions[f].identifier \in Identifiers}

\* A consumer evaluates function(queue, *args, **kwargs).
Call(function, queue, args, kwargs) ==
    /\ pc = "ready"
    /\ pc' = "returned"
    /\ LET r == call(functions, memo, builds, function, queue, args, kwargs)
       IN  /\ Len(r.builds[function]) <= MaxBuilds
           /\ memo' = r.memo
           /\ builds' = r.builds
           /\ ret' = [op |-> "call", args |-> <<function, queue, args, kwargs>>,
                      exc |-> r.out.exc, val |-> r.out.val,
                      built |-> r.builds # builds]
    /\ UNCHANGED <<threads, bfr, base_function_registry, functions, dicts, registries>>

\* A consumer evaluates function.get_result_dofdesc(arg_dds).
GetResultDofdesc(function, arg_dds) ==
    /\ pc = "ready"
    /\ pc' = "returned"
    /\ LET r == get_result_dofdesc(functions, function, arg_dds)
       IN  ret' = [op |-> "get_result_dofdesc", args |-> <<function, arg_dds>>,
                   exc |-> r.exc, val |-> r.val,
                      built |-> FALSE]
    /\ UNCHANGED <<threads, bfr, base_function_registry, functions, memo, builds,
                   dicts, registries>>

\* Calls are made one after another: the caller binds the outcome of a call
\* (as _make_bfr does with `bfr = bfr.register(...)`) before it makes the next.
\* Idle is `ret` between two calls.
Idle == [op |-> "idle", args |-> <<>>, exc |-> None, val |-> None,
         built |-> FALSE]

\* The consumer is done with the outcome of its call and goes on.
Resume ==
    /\ pc = "returned"
    /\ pc' = "ready"
    /\ ret' = Idle
    /\ UNCHANGED <<threads, bfr, base_function_registry, functions, memo, builds, dicts,
                   registries>>

\* ------------------------------------------------------------------ threads
\* Threads of one consumer share the base registry and the Function instances
\* it binds. Nothing in the module takes a lock, so a thread can be preempted
\* between any two statements of register and between the lookup, the call of
\* knl's body and the store that memoize_in makes around it.

\* Identifiers threads look up in the base registry.
ThreadLookupIdentifiers == {"sin", "myfunc"}

\* The Function instances threads construct and register.
ThreadFunctions ==
    { CElementwiseUnaryFunction("abs"),
      FixedDOFDescExternalFunction("myfunc", "impl", "DD1"),
      CElementwiseUnaryFunction("sin") }

\* The queue each thread invokes Functions with.
ThreadQueue(t) == IF t = "t1" THEN "queue1" ELSE "queue2"

\* The instances of the base registry threads invoke on the array path.
ThreadCallTargets ==
    {f \in DOMAIN functions : f <= Len(BfrFunctions)
                              /\ functions[f].identifier \in {"fabs"}}

\* The outcome r of the call op(args) a thread made.
ThreadOut(op, args, r, built) ==
    [op |-> op, args |-> args, exc |-> r.exc, val |-> r.val, built |-> built]

\* memoize_in's store that keeps an entry already there (install if absent).
knl_store_if_absent(m, self, cached_name, k) ==
    IF DictHas(m[self], cached_name)
    THEN m
    ELSE [m EXCEPT ![self] = DictSet(@, cached_name, k)]

\* memoize_in's store of what knl's body returned, under cached_name in the
\* cache it keeps on self.
knl_store(m, self, cached_name, k) ==
    [m EXCEPT ![self] = DictSet(@, cached_name, k)]

\* Thread t constructs a Function instance to register.
T_NewFunction(t, fn) ==
    /\ pc = "ready"
    /\ threads[t].pc = "idle"
    /\ functions' = Append(functions, fn)
    /\ memo' = Append(memo, {})
    /\ builds' = Append(builds, <<>>)
    /\ threads' = [threads EXCEPT ![t].pc = "register",
                                  ![t].function = Len(functions) + 1]
    /\ UNCHANGED <<pc, bfr, base_function_registry, dicts, registries, ret>>

\* Thread t enters base_function_registry.register(function): the membership
\* test, and the raise when the identifier is bound.
T_RegisterCheck(t) ==
    /\ pc = "ready"
    /\ threads[t].pc = "register"
    /\ LET self == base_function_registry
           function == threads[t].function
       IN  IF DictHas(dicts[registries[self].id_to_function],
                      functions[function].identifier)
           THEN threads' = [threads EXCEPT
                    ![t].pc = "done",
                    ![t].out = ThreadOut("register", <<self, function>>,
                                         Raise("ValueError"), FALSE)]
           ELSE threads' = [threads EXCEPT ![t].pc = "register_copy"]
    /\ UNCHANGED <<pc, bfr, base_function_registry, functions, memo, builds,
                   dicts, registries, ret>>

\* new_id_to_function = self.id_to_function.copy()
T_RegisterCopy(t) ==
    /\ pc = "ready"
    /\ threads[t].pc = "register_copy"
    /\ LET c == dict_copy(dicts, registries[base_function_registry].id_to_function)
       IN  /\ dicts' = c.dicts
           /\ threads' = [threads EXCEPT ![t].pc = "register_set",
                                         ![t].id_to_function = c.ref]
    /\ UNCHANGED <<pc, bfr, base_function_registry, functions, memo, builds,
                   registries, ret>>

\* new_id_to_function[function.identifier] = function
T_RegisterSet(t) ==
    /\ pc = "ready"
    /\ threads[t].pc = "register_set"
    /\ dicts' = [dicts EXCEPT ![threads[t].id_to_function] =
                    DictSet(@, functions[threads[t].function].identifier,
                            threads[t].function)]
    /\ threads' = [threads EXCEPT ![t].pc = "register_return"]
    /\ UNCHANGED <<pc, bfr, base_function_registry, functions, memo, builds,
                   registries, ret>>

\* return self.copy(id_to_function=new_id_to_function)
T_RegisterReturn(t) ==
    /\ pc = "ready"
    /\ threads[t].pc = "register_return"
    /\ registries' = Append(registries,
                            [id_to_function |-> threads[t].id_to_function])
    /\ threads' = [threads EXCEPT
           ![t].pc = "done",
           ![t].out = ThreadOut("register",
                                <<base_function_registry, threads[t].function>>,
                                Return(Len(registries) + 1), FALSE)]
    /\ UNCHANGED <<pc, bfr, base_function_registry, functions, memo, builds,
                   dicts, ret>>

\* Thread t evaluates base_function_registry[function_id].
T_GetItem(t, function_id) ==
    /\ pc = "ready"
    /\ threads[t].pc = "idle"
    /\ threads' = [threads EXCEPT ![t].pc = "done", ![t].out =
           ThreadOut("getitem", <<base_function_registry, function_id>>,
                     getitem(dicts, registries, base_function_registry,
                             function_id), FALSE)]
    /\ UNCHANGED <<pc, bfr, base_function_registry, functions, memo, builds,
                   dicts, registries, ret>>

\* Thread t evaluates `function_id in base_function_registry`.
T_Contains(t, function_id) ==
    /\ pc = "ready"
    /\ threads[t].pc = "idle"
    /\ threads' = [threads EXCEPT ![t].pc = "done", ![t].out =
           ThreadOut("contains", <<base_function_registry, function_id>>,
                     contains(dicts, registries, base_function_registry,
                              function_id), FALSE)]
    /\ UNCHANGED <<pc, bfr, base_function_registry, functions, memo, builds,
                   dicts, registries, ret>>

\* Thread t evaluates function(queue, arg) with an array and reaches knl():
\* memoize_in looks cached_name up in the cache of the instance.
T_KnlLookup(t, function) ==
    /\ pc = "ready"
    /\ threads[t].pc = "idle"
    /\ ~IsScalar(ArrayArg)
    /\ LET cached_name == cached_name_of(functions[function].identifier)
       IN  IF DictHas(memo[function], cached_name)
           THEN threads' = [threads EXCEPT
                    ![t].pc = "knl_run",
                    ![t].knl = DictGet(memo[function], cached_name),
                    ![t].out = ThreadOut("call", <<function, ThreadQueue(t)>>,
                                         Return(None), FALSE)]
           ELSE threads' = [threads EXCEPT
                    ![t].pc = "knl_build",
                    ![t].out = ThreadOut("call", <<function, ThreadQueue(t)>>,
                                         Return(None), TRUE)]
    /\ UNCHANGED <<pc, bfr, base_function_registry, functions, memo, builds,
                   dicts, registries, ret>>

\* The body of knl() runs: lp.make_kernel and lp.split_iname.
T_KnlBuild(t) ==
    /\ pc = "ready"
    /\ threads[t].pc = "knl_build"
    /\ LET function == threads[t].out.args[1]
           func_name == func_name_of(functions[function].identifier)
       IN  /\ builds' = [builds EXCEPT ![function] =
                   Append(@, [op |-> func_name, queue |-> ThreadQueue(t)])]
           /\ threads' = [threads EXCEPT
                   ![t].pc = "knl_store",
                   ![t].knl = make_kernel(func_name, function,
                                          Len(builds[function]) + 1)]
    /\ UNCHANGED <<pc, bfr, base_function_registry, functions, memo, dicts,
                   registries, ret>>

\* memoize_in stores what the body returned.
T_KnlStore(t) ==
    /\ pc = "ready"
    /\ threads[t].pc = "knl_store"
    /\ LET function == threads[t].out.args[1]
       IN  memo' = knl_store(memo, function,
                             cached_name_of(functions[function].identifier),
                             threads[t].knl)
    /\ threads' = [threads EXCEPT ![t].pc = "knl_run"]
    /\ UNCHANGED <<pc, bfr, base_function_registry, functions, builds, dicts,
                   registries, ret>>

\* evt, (out,) = knl()(queue, a=arg); return out
T_KnlRun(t) ==
    /\ pc = "ready"
    /\ threads[t].pc = "knl_run"
    /\ threads' = [threads EXCEPT
           ![t].pc = "done",
           ![t].knl = None,
           ![t].out.val = run_kernel(threads[t].knl, ThreadQueue(t), ArrayArg)]
    /\ UNCHANGED <<pc, bfr, base_function_registry, functions, memo, builds,
                   dicts, registries, ret>>

\* ------------------------------------------------------------------ specification

Next ==
    \/ MakeBfrStep
    \/ MakeBfrReturn
    \/ \E fn \in ConsumerFunctions : NewFunction(fn)
    \/ \E self \in ConsumerRegistries, function \in DOMAIN functions :
          Register(self, function)
    \/ \E r \in ConsumerRegistries, identifier \in {"myfunc", "sin"},
          implementation \in Implementations, dd \in Descriptors :
          register_external_function(r, identifier, implementation, dd)
    \/ \E self \in ConsumerRegistries, function_id \in LookupIdentifiers :
          GetItem(self, function_id)
    \/ \E self \in ConsumerRegistries, function_id \in LookupIdentifiers :
          Contains(self, function_id)
    \/ \E function \in CallTargets, in \in CallInputs :
          Call(function, in.queue, in.args, in.kwargs)
    \/ \E function \in CallTargets, arg_dds \in DescriptorLists :
          GetResultDofdesc(function, arg_dds)
    \/ Resume

Spec == Init /\ [][Next]_vars

\* The module is imported, then threads call into it concurrently.
NextThreads ==
    \/ MakeBfrStep
    \/ MakeBfrReturn
    \/ \E t \in Threads, fn \in ThreadFunctions : T_NewFunction(t, fn)
    \/ \E t \in Threads : T_RegisterCheck(t)
    \/ \E t \in Threads : T_RegisterCopy(t)
    \/ \E t \in Threads : T_RegisterSet(t)
    \/ \E t \in Threads : T_RegisterReturn(t)
    \/ \E t \in Threads, function_id \in ThreadLookupIdentifiers :
          T_GetItem(t, function_id)
    \/ \E t \in Threads, function_id \in ThreadLookupIdentifiers :
          T_Contains(t, function_id)
    \/ \E t \in Threads, function \in ThreadCallTargets :
          T_KnlLookup(t, function)
    \/ \E t \in Threads : T_KnlBuild(t)
    \/ \E t \in Threads : T_KnlStore(t)
    \/ \E t \in Threads : T_KnlRun(t)

SpecThreads == Init /\ [][NextThreads]_vars

TypeOK ==
    /\ pc \in {"make_bfr", "ready", "returned", "import_error"}
    /\ Len(memo) = Len(functions)
    /\ Len(builds) = Len(functions)

\* ------------------------------------------------------------------ properties

\* The mapping of registry r: the entries of the dict it refers to.
Mapping(r) == dicts[registries[r].id_to_function]

\* The registries some variable refers to: the one _make_bfr is building (the
\* base registry once it has returned) and those consumers derived.
HeldRegistries ==
    {bfr} \cup {r \in DOMAIN registries : r > Len(BfrFunctions) + 1}

\* C1: when R.register(f) returns, f's identifier is not in R, and the
\* registry returned is another instance whose mapping is R's mapping plus
\* the one entry f.identifier -> f.
C1_ReturnsExtendedMapping ==
    (ret.op = "register" /\ ret.exc = None) =>
        LET R == ret.args[1]
            f == ret.args[2]
            R2 == ret.val
        IN  /\ R2 \in DOMAIN registries
            /\ R2 # R
            /\ ~DictHas(Mapping(R), functions[f].identifier)
            /\ Mapping(R2) =
                 Mapping(R) \cup {[key |-> functions[f].identifier, value |-> f]}

\* C1: no step (a register on R or on a descendant, or anything else) changes
\* the mapping of a registry that exists.
C1_ReceiverNotMutated ==
    \A r \in DOMAIN registries :
        /\ r \in DOMAIN registries'
        /\ dicts'[registries'[r].id_to_function] = Mapping(r)

\* C1: register returns the receiver's mapping plus the one new entry, and
\* every existing registry keeps exactly its mapping in every later step.
C1_RegisterCopyOnWrite ==
    [](C1_ReturnsExtendedMapping) /\ [][C1_ReceiverNotMutated]_vars

\* C1 witness: a second successful register on the base registry, made after a
\* first one already derived a registry from it.
C1_Witness ==
    /\ ret.op = "register"
    /\ ret.exc = None
    /\ pc = "returned"
    /\ ret.args[1] = base_function_registry
    /\ NumConsumerRegistries = MaxRegistries

\* The identifier a register / register_external_function call registers.
RegisteredIdentifier ==
    IF ret.op = "register" THEN functions[ret.args[2]].identifier ELSE ret.args[2]

\* C2: a register or register_external_function call whose identifier is in
\* the receiver fails with ValueError (and only then).
C2_DuplicateRaises ==
    (ret.op \in {"register", "register_external_function"}) =>
        /\ ret.exc \in {None, "ValueError"}
        /\ (ret.exc = "ValueError") <=>
               DictHas(Mapping(ret.args[1]), RegisteredIdentifier)
        /\ (ret.exc = "ValueError") => ret.val = None

\* C2: the failing call creates no registry and leaves every binding alone.
C2_FailureKeepsBindings ==
    (ret'.exc = "ValueError") =>
        /\ registries' = registries
        /\ dicts' = dicts

\* C2: registering an identifier that is already present raises ValueError,
\* from register and from register_external_function alike, and rebinds nothing.
C2_DuplicateRejected ==
    [](C2_DuplicateRaises) /\ [][C2_FailureKeepsBindings]_vars

\* C2 witness: register_external_function of "sin" on the base registry failed.
C2_Witness ==
    /\ ret.op = "register_external_function"
    /\ ret.args[1] = base_function_registry
    /\ ret.args[2] = "sin"
    /\ ret.exc = "ValueError"
    /\ functions[DictGet(Mapping(base_function_registry), "sin")].cls =
           "CElementwiseUnaryFunction"

\* C3: in every registry held and for every identifier, either the identifier is
\* contained and lookup returns a Function with that identifier, or it is not
\* contained and lookup raises FunctionNotFound; membership never raises.
C3_LookupTotal ==
    \A r \in HeldRegistries : \A id \in Identifiers :
        IF \E e \in Mapping(r) : e.key = id
        THEN /\ contains(dicts, registries, r, id) = Return(TRUE)
             /\ LET got == getitem(dicts, registries, r, id)
                 IN  got.exc = None /\ functions[got.val].identifier = id
        ELSE /\ contains(dicts, registries, r, id) = Return(FALSE)
             /\ getitem(dicts, registries, r, id) = Raise("FunctionNotFound")

\* C3: a lookup or membership test a consumer made returned what the mapping
\* holds, and the mapping has one entry per identifier.
C3_LookupReturned ==
    /\ \A r \in HeldRegistries : \A e1, e2 \in Mapping(r) :
           (e1.key = e2.key) => (e1 = e2)
    /\ (ret.op = "getitem") =>
           /\ ret.exc \in {None, "FunctionNotFound"}
           /\ (ret.exc = None) =>
                  [key |-> ret.args[2], value |-> ret.val] \in Mapping(ret.args[1])
           /\ (ret.exc = "FunctionNotFound") =>
                  ret.args[2] \notin DictKeys(Mapping(ret.args[1]))
    /\ (ret.op = "contains") =>
           /\ ret.exc = None
           /\ ret.val = (ret.args[2] \in DictKeys(Mapping(ret.args[1])))

\* C3: lookups and membership tests change no registry, dict or Function.
C3_LookupReadOnly ==
    (ret'.op \in {"getitem", "contains"}) =>
        UNCHANGED <<functions, memo, builds, dicts, registries>>

\* C3: lookup is total over registries built by register calls: found with the
\* right identifier or FunctionNotFound, and membership is a pure test.
C3_LookupTotality ==
    [](C3_LookupTotal /\ C3_LookupReturned) /\ [][C3_LookupReadOnly]_vars

\* C3 witness: a consumer looked up "myfunc" in the base registry (absent) while
\* a derived registry contains it.
C3_Witness ==
    /\ ret.op = "getitem"
    /\ ret.args = <<base_function_registry, "myfunc">>
    /\ ret.exc = "FunctionNotFound"
    /\ \E r \in ConsumerRegistries : DictHas(Mapping(r), "myfunc")

\* The call just made was function(queue, arg) on an elementwise unary
\* instance with the one-dimensional array, and it returned.
ArrayCallReturned ==
    /\ ret.op = "call"
    /\ functions[ret.args[1]].cls = "CElementwiseUnaryFunction"
    /\ ret.args[3] = <<ArrayArg>>
    /\ ret.args[4] = NoKwargs

\* The call just made was function(queue, arg) on an elementwise unary
\* instance with a number or a zero-dimensional array.
ScalarCallReturned ==
    /\ ret.op = "call"
    /\ functions[ret.args[1]].cls = "CElementwiseUnaryFunction"
    /\ ret.args[3] \in {<<NumberArg>>, <<ZeroDimArg>>}
    /\ ret.args[4] = NoKwargs

\* C4: an instance has had at most one kernel built, and an array-path
\* invocation returns the output of that first-built, cached kernel.
C4_BuiltAtMostOnce ==
    /\ \A f \in DOMAIN functions : Len(builds[f]) <= 1
    /\ ArrayCallReturned =>
           LET f == ret.args[1]
           IN  /\ ret.exc = None
               /\ Len(builds[f]) = 1
               /\ ret.val.knl.id = <<f, 1>>
               /\ \E e \in memo[f] : e.value = ret.val.knl

\* C4: a cached kernel is never replaced or evicted, and an instance that has
\* one cached builds no other.
C4_CacheKept ==
    \A f \in DOMAIN memo :
        /\ memo[f] \subseteq memo'[f]
        /\ (memo[f] # {}) => builds'[f] = builds[f]

\* C4: array-path invocations of one instance build its kernel at most once;
\* the cached kernel stays and every later invocation reuses it.
C4_KernelMemoization ==
    [](C4_BuiltAtMostOnce) /\ [][C4_CacheKept]_vars

\* C4 witness: an array-path invocation that built nothing, against the same
\* queue as the invocation that built the kernel.
C4_Witness ==
    /\ ArrayCallReturned
    /\ ~ret.built
    /\ Len(builds[ret.args[1]]) = 1
    /\ builds[ret.args[1]][1].queue = ret.args[2]

\* C5 as claimed: the kernel an array-path invocation against a queue uses was
\* built for that queue (one build per instance and context).
C5_EntryPerContext ==
    ArrayCallReturned =>
        \E i \in DOMAIN builds[ret.args[1]] :
            builds[ret.args[1]][i].queue = ret.args[2]

\* C5 amended: the cache is per instance, whatever the context: an instance
\* holds at most one entry, made by its one build, and an array-path invocation
\* against another queue than the one that build was made under builds nothing
\* and runs that same kernel.
C5_EntryPerInstance ==
    /\ \A f \in DOMAIN functions :
           /\ Cardinality(memo[f]) <= 1
           /\ Len(builds[f]) = Cardinality(memo[f])
    /\ (ArrayCallReturned /\ Len(builds[ret.args[1]]) >= 1
          /\ builds[ret.args[1]][1].queue # ret.args[2]) =>
           /\ ~ret.built
           /\ ret.val.queue = ret.args[2]
           /\ memo[ret.args[1]] =
                 {[key |-> cached_name_of(functions[ret.args[1]].identifier),
                   value |-> ret.val.knl]}

\* C5 witness: an array-path invocation against a queue other than the one the
\* instance's kernel was built under.
C5_Witness ==
    /\ ArrayCallReturned
    /\ Len(builds[ret.args[1]]) = 1
    /\ builds[ret.args[1]][1].queue # ret.args[2]

\* C6: every kernel in an instance's cache, and every kernel an invocation of
\* the instance runs, was built for that instance; an instance with a cached
\* kernel made a build of its own.
C6_OwnKernel ==
    /\ \A f \in DOMAIN functions :
           /\ \A e \in memo[f] : e.value.id[1] = f
           /\ (memo[f] # {}) <=> (Len(builds[f]) >= 1)
    /\ ArrayCallReturned =>
           /\ ret.val.knl.id[1] = ret.args[1]
           /\ \E e \in memo[ret.args[1]] : e.value = ret.val.knl

\* C6: invoking one instance leaves the cache and the builds of every other
\* instance as they were.
C6_OthersUntouched ==
    (ret'.op = "call") =>
        \A g \in DOMAIN memo :
            (g # ret'.args[1]) => (memo'[g] = memo[g] /\ builds'[g] = builds[g])

\* C6: kernel cache entries belong to the instance that created them: no
\* instance creates, reads or reuses an entry of another one.
C6_CachePrivate ==
    [](C6_OwnKernel) /\ [][C6_OthersUntouched]_vars

\* C6 witness: an instance built its own kernel although another instance
\* already held a kernel under the same cache key.
C6_Witness ==
    /\ ArrayCallReturned
    /\ ret.built
    /\ \E f \in DOMAIN functions :
           /\ f # ret.args[1]
           /\ memo[f] # {}
           /\ DictKeys(memo[f]) = DictKeys(memo[ret.args[1]])
           /\ functions[f].identifier # functions[ret.args[1]].identifier

\* The operation name and cache key C7 states for an identifier.
C7_Operation(identifier) == IF identifier = "fabs" THEN "abs" ELSE identifier

\* C7: the cache key is "map_call_knl_" followed by the operation name, which
\* is the identifier except for "fabs", whose operation is "abs"; the kernel
\* built, cached and run is one for that operation.
C7_NameRemap ==
    /\ \A f \in DOMAIN functions :
           /\ \A e \in memo[f] :
                  /\ e.key = "map_call_knl_" \o C7_Operation(functions[f].identifier)
                  /\ e.value.op = C7_Operation(functions[f].identifier)
                  /\ (functions[f].identifier = "fabs") =>
                         (e.key = "map_call_knl_abs" /\ e.value.op # "fabs")
           /\ \A i \in DOMAIN builds[f] :
                  builds[f][i].op = C7_Operation(functions[f].identifier)
    /\ ArrayCallReturned =>
           /\ ret.val.knl.op = C7_Operation(functions[ret.args[1]].identifier)
           /\ \A i \in DOMAIN ret.val.data :
                  ret.val.data[i] =
                      <<C7_Operation(functions[ret.args[1]].identifier),
                        ArrayArg.data[i]>>

\* C7 witness: "fabs" was invoked on an array and built its kernel.
C7_Witness ==
    /\ ArrayCallReturned
    /\ ret.built
    /\ functions[ret.args[1]].identifier = "fabs"

\* C8: a call with a number or a zero-dimensional array built no kernel and
\* returned numpy's function of the instance's identifier at that value.
C8_ScalarValue ==
    ScalarCallReturned =>
        /\ ~ret.built
        /\ (functions[ret.args[1]].identifier \in NumpyNames) =>
               /\ ret.exc = None
               /\ ret.val = [np |-> functions[ret.args[1]].identifier,
                             x |-> ret.args[3][1].data[1]]

\* C8: the step of such a call changes no cache and no build record.
C8_CacheUnchanged ==
    (/\ ret'.op = "call"
     /\ pc = "ready"
     /\ functions[ret'.args[1]].cls = "CElementwiseUnaryFunction"
     /\ ret'.args[3] \in {<<NumberArg>>, <<ZeroDimArg>>}
     /\ ret'.args[4] = NoKwargs) =>
        (memo' = memo /\ builds' = builds)

\* C8: the scalar path returns the scalar operation's value and neither builds
\* a kernel nor changes the kernel cache, cached kernel or not.
C8_ScalarFastPath ==
    [](C8_ScalarValue) /\ [][C8_CacheUnchanged]_vars

\* C8 witness: a call with a zero-dimensional array on an instance that has a
\* kernel cached.
C8_Witness ==
    /\ ScalarCallReturned
    /\ ret.args[3] = <<ZeroDimArg>>
    /\ memo[ret.args[1]] # {}

\* C9: register_external_function(base, "myfunc", impl, D) returns a registry
\* R2 that contains "myfunc", bound to a Function whose get_result_dofdesc is D
\* for every list, while the base registry raises FunctionNotFound for it.
C9_Registered ==
    (/\ ret.op = "register_external_function"
     /\ ret.args[1] = base_function_registry
     /\ ret.args[2] = "myfunc") =>
        /\ ret.exc = None
        /\ contains(dicts, registries, ret.val, "myfunc") = Return(TRUE)
        /\ LET got == getitem(dicts, registries, ret.val, "myfunc")
           IN  /\ got.exc = None
               /\ functions[got.val].identifier = "myfunc"
               /\ \A x \in DescriptorLists :
                      get_result_dofdesc(functions, got.val, x) = Return(ret.args[4])
               /\ \A in \in CallInputs :
                      call(functions, memo, builds, got.val,
                           in.queue, in.args, in.kwargs).out =
                        Return([implementation |-> ret.args[3], queue |-> in.queue,
                                args |-> in.args, kwargs |-> in.kwargs])
        /\ getitem(dicts, registries, base_function_registry, "myfunc") =
               Raise("FunctionNotFound")

\* C9: what consumers got from an external Function: its fixed descriptor for
\* any list, and from a call the implementation's result for exactly the
\* (queue, *args, **kwargs) of the call; the base registry never has "myfunc".
C9_Forwarded ==
    /\ (ret.op = "get_result_dofdesc"
          /\ functions[ret.args[1]].cls = "FixedDOFDescExternalFunction") =>
           (ret.exc = None /\ ret.val = functions[ret.args[1]].dd)
    /\ (ret.op = "call"
          /\ functions[ret.args[1]].cls = "FixedDOFDescExternalFunction") =>
           /\ ret.exc = None
           /\ ~ret.built
           /\ ret.val = [implementation |-> functions[ret.args[1]].implementation,
                         queue |-> ret.args[2], args |-> ret.args[3],
                         kwargs |-> ret.args[4]]
    /\ (ret.op = "getitem" /\ ret.args = <<base_function_registry, "myfunc">>) =>
           ret.exc = "FunctionNotFound"

\* C9: the end-to-end scenario of an external function registered on the base
\* registry.
C9_ExternalEndToEnd == C9_Registered /\ C9_Forwarded

\* C9 witness: "myfunc", registered on the base registry and looked up in the
\* registry returned, was called with positional and keyword arguments.
C9_Witness ==
    /\ ret.op = "call"
    /\ ret.args[4] = SomeKwargs
    /\ functions[ret.args[1]].cls = "FixedDOFDescExternalFunction"
    /\ \E r \in ConsumerRegistries :
           /\ r # base_function_registry
           /\ [key |-> "myfunc", value |-> ret.args[1]] \in Mapping(r)
    /\ ~DictHas(Mapping(base_function_registry), "myfunc")

\* C10: get_result_dofdesc of an elementwise unary Function returns d on [d]
\* and raises on a list of 0 or of 2 or more descriptors.
C10_UnaryDescriptor ==
    /\ \A d \in Descriptors : elementwise_get_result_dofdesc(<<d>>) = Return(d)
    /\ (ret.op = "get_result_dofdesc"
          /\ functions[ret.args[1]].cls = "CElementwiseUnaryFunction") =>
           IF Len(ret.args[2]) = 1
           THEN ret.exc = None /\ ret.val = ret.args[2][1]
           ELSE ret.exc = "AssertionError" /\ ret.val = None

\* C10 witness: get_result_dofdesc of an elementwise unary Function raised on a
\* list of two descriptors.
C10_Witness ==
    /\ ret.op = "get_result_dofdesc"
    /\ functions[ret.args[1]].cls = "CElementwiseUnaryFunction"
    /\ Len(ret.args[2]) = 2
    /\ ret.exc = "AssertionError"

\* C11: get_result_dofdesc of a special two-argument Function returns the
\* second descriptor of a pair, never the first, and raises on a list of any
\* other length.
C11_BinaryDescriptor ==
    /\ \A d0, d1 \in Descriptors :
           bessel_get_result_dofdesc(<<d0, d1>>) = Return(d1)
    /\ (ret.op = "get_result_dofdesc"
          /\ functions[ret.args[1]].cls = "CBesselFunction") =>
           IF Len(ret.args[2]) = 2
           THEN ret.exc = None /\ ret.val = ret.args[2][2]
           ELSE ret.exc = "AssertionError" /\ ret.val = None

\* C11 witness: get_result_dofdesc of "bessel_j" returned the second of two
\* different descriptors.
C11_Witness ==
    /\ ret.op = "get_result_dofdesc"
    /\ functions[ret.args[1]] = CBesselFunction("bessel_j")
    /\ Len(ret.args[2]) = 2
    /\ ret.args[2][1] # ret.args[2][2]
    /\ ret.val = ret.args[2][2]

\* C12: once the module is imported, "bessel_j" and "bessel_y" are found in
\* the base registry and every call on what is found raises the not-callable
\* TypeError and leaves the caches alone; a call a consumer made on a
\* CBesselFunction raised it, returned no value and built nothing.
C12_NotCallable ==
    /\ (pc \in {"ready", "returned"}) =>
           \A id \in {"bessel_j", "bessel_y"} :
               LET got == getitem(dicts, registries, base_function_registry, id)
               IN  /\ got.exc = None
                   /\ functions[got.val].cls = "CBesselFunction"
                   /\ memo[got.val] = {}
                   /\ \A in \in CallInputs :
                          call(functions, memo, builds, got.val,
                               in.queue, in.args, in.kwargs) =
                            [memo |-> memo, builds |-> builds,
                             out |-> Raise("TypeError: not callable")]
    /\ (ret.op = "call" /\ functions[ret.args[1]].cls = "CBesselFunction") =>
           /\ ret.exc = "TypeError: not callable"
           /\ ret.val = None
           /\ ~ret.built
           /\ memo[ret.args[1]] = {}

\* C12 witness: a consumer called "bessel_j" of the base registry with an array.
C12_Witness ==
    /\ ret.op = "call"
    /\ ret.args[3] = <<ArrayArg>>
    /\ [key |-> "bessel_j", value |-> ret.args[1]] \in
           Mapping(base_function_registry)
    /\ ret.exc = "TypeError: not callable"

\* The classes of the seven identifiers C13 names, in registration order.
C13_Base ==
    << [id |-> "sqrt", cls |-> "CElementwiseUnaryFunction"],
       [id |-> "exp", cls |-> "CElementwiseUnaryFunction"],
       [id |-> "fabs", cls |-> "CElementwiseUnaryFunction"],
       [id |-> "sin", cls |-> "CElementwiseUnaryFunction"],
       [id |-> "cos", cls |-> "CElementwiseUnaryFunction"],
       [id |-> "bessel_j", cls |-> "CBesselFunction"],
       [id |-> "bessel_y", cls |-> "CBesselFunction"] >>

\* C13: no registration of _make_bfr fails; after its n-th one, bfr maps
\* exactly the first n of the seven identifiers, each to the n-th instance
\* constructed, of the class named; once assigned, the base registry is the
\* registry of all seven.
C13_BaseContents ==
    /\ pc # "import_error"
    /\ (pc = "make_bfr") =>
           /\ Len(functions) <= Len(C13_Base)
           /\ Mapping(bfr) =
                 {[key |-> C13_Base[i].id, value |-> i] : i \in DOMAIN functions}
    /\ (pc \in {"ready", "returned"}) =>
           /\ base_function_registry = bfr
           /\ Mapping(base_function_registry) =
                 {[key |-> C13_Base[i].id, value |-> i] : i \in DOMAIN C13_Base}
           /\ \A i \in DOMAIN C13_Base :
                  /\ functions[i].identifier = C13_Base[i].id
                  /\ functions[i].cls = C13_Base[i].cls

\* C13: no step changes the base registry: the object it is, the dict it
\* refers to, that dict's entries, or the seven Function instances.
C13_BaseKept ==
    (pc \in {"ready", "returned"}) =>
        /\ base_function_registry' = base_function_registry
        /\ registries'[base_function_registry] = registries[base_function_registry]
        /\ dicts'[registries[base_function_registry].id_to_function] =
               Mapping(base_function_registry)
        /\ \A i \in DOMAIN C13_Base : functions'[i] = functions[i]

\* C13: the base registry holds exactly sqrt, exp, fabs, sin, cos (elementwise
\* unary) and bessel_j, bessel_y (special two-argument), registered in that
\* order without failure, and no consumer call mutates it.
C13_BaseRegistry ==
    [](C13_BaseContents) /\ [][C13_BaseKept]_vars

\* C13 witness: consumers derived as many registries as the bound allows, one
\* of them with "myfunc", by calls on the base registry and on a registry
\* derived from it.
C13_Witness ==
    /\ pc = "returned"
    /\ NumConsumerRegistries = MaxRegistries
    /\ \E r \in ConsumerRegistries :
           r # base_function_registry /\ DictHas(Mapping(r), "myfunc")
    /\ ret.op \in {"register", "register_external_function"}
    /\ ret.exc = None
    /\ Cardinality(Mapping(base_function_registry)) = Len(C13_Base)

\* C16: the registry a register or register_external_function call returned
\* binds every identifier of the receiver to the very instance the receiver
\* binds it to.
C16_SameInstances ==
    (ret.op \in {"register", "register_external_function"} /\ ret.exc = None) =>
        /\ Mapping(ret.args[1]) \subseteq Mapping(ret.val)
        /\ \A id \in DictKeys(Mapping(ret.args[1])) :
               getitem(dicts, registries, ret.val, id) =
                   getitem(dicts, registries, ret.args[1], id)

\* C16: when an instance a registry version binds has a kernel cached, an
\* array-path invocation of what a lookup in that version returns builds
\* nothing and leaves the instance's cache as it is.
C16_SharedKernel ==
    \A r \in HeldRegistries : \A e \in Mapping(r) :
        (memo[e.value] # {}) =>
            LET c == call(functions, memo, builds,
                          getitem(dicts, registries, r, e.key).val,
                          "queue2", <<ArrayArg>>, NoKwargs)
            IN  <<c.memo[e.value], c.builds[e.value], c.out.exc>> =
                    <<memo[e.value], builds[e.value], None>>

\* C16: along registrations no identifier of a registry is removed or bound to
\* another instance.
C16_NeverRebound ==
    \A r \in DOMAIN registries : \A e \in Mapping(r) :
        e \in dicts'[registries'[r].id_to_function]

\* C16: registration shares the Function instances, keeps every binding, and
\* so a kernel cached on an instance serves every registry version binding it.
C16_InstancesShared ==
    [](C16_SameInstances /\ C16_SharedKernel) /\ [][C16_NeverRebound]_vars

\* C16 witness: an array-path invocation reused the kernel of an instance that
\* the base registry and a larger registry derived from it bind under the same
\* identifier.
C16_Witness ==
    /\ ArrayCallReturned
    /\ ~ret.built
    /\ \E r \in ConsumerRegistries, id \in {"sin", "fabs"} :
           /\ r # base_function_registry
           /\ Mapping(base_function_registry) \subseteq Mapping(r)
           /\ Mapping(base_function_registry) # Mapping(r)
           /\ [key |-> id, value |-> ret.args[1]] \in Mapping(base_function_registry)
           /\ [key |-> id, value |-> ret.args[1]] \in Mapping(r)

\* C17: a call that raised returned no value and built no kernel, and what it
\* raised is the error of its kind: ValueError from register and
\* register_external_function, FunctionNotFound from lookup, AssertionError
\* from get_result_dofdesc, the not-callable TypeError from a CBesselFunction.
C17_Raised ==
    (ret.exc # None) =>
        /\ ret.val = None
        /\ ~ret.built
        /\ ret.op \in {"register", "register_external_function", "getitem",
                       "get_result_dofdesc", "call"}
        /\ (ret.op \in {"register", "register_external_function"}) =>
               ret.exc = "ValueError"
        /\ (ret.op = "getitem") => ret.exc = "FunctionNotFound"
        /\ (ret.op = "get_result_dofdesc") => ret.exc = "AssertionError"
        /\ (ret.op = "call" /\ functions[ret.args[1]].cls = "CBesselFunction") =>
               ret.exc = "TypeError: not callable"

\* C17: the step of a call that raises changes no registry, no dict, no
\* Function instance, no kernel cache and no build record.
C17_FailureFrame ==
    (pc' = "returned" /\ ret'.exc # None) =>
        UNCHANGED <<base_function_registry, functions, memo, builds, dicts,
                    registries>>

\* C17: failed operations raise at once and change no state.
C17_FailedChangeNothing ==
    [](C17_Raised) /\ [][C17_FailureFrame]_vars

\* C17 witness: a register rejected as a duplicate on a registry a consumer
\* derived, while an instance holds a cached kernel.
C17_Witness ==
    /\ pc = "returned"
    /\ ret.op = "register"
    /\ ret.exc = "ValueError"
    /\ ret.args[1] # base_function_registry
    /\ \E f \in DOMAIN memo : memo[f] # {}

\* C18: an elementwise instance holds at most one kernel cache entry, and the
\* key of the entry is "map_call_knl_" followed by the operation name of the
\* instance's own identifier; an instance of another class holds none.
C18_SingleKey ==
    \A f \in DOMAIN functions :
        IF functions[f].cls = "CElementwiseUnaryFunction"
        THEN /\ \A e1, e2 \in memo[f] : e1 = e2
             /\ \A e \in memo[f] :
                    e.key = "map_call_knl_" \o C7_Operation(functions[f].identifier)
        ELSE memo[f] = {}

\* C18: an invocation leaves an instance's cache entry as it is once there is
\* one, whatever path, argument and queue it takes.
C18_NoSecondKey ==
    \A f \in DOMAIN functions :
        (memo[f] # {}) => (memo'[f] = memo[f])

\* C18: one cache key per elementwise instance, in every state and along
\* every sequence of invocations.
C18_OneKeyPerInstance ==
    [](C18_SingleKey) /\ [][C18_NoSecondKey]_vars

\* C18 witness: a scalar-path invocation of the "fabs" instance returned
\* while the instance holds its cache entry, built by an earlier array-path
\* invocation.
C18_Witness ==
    /\ pc = "returned"
    /\ ScalarCallReturned
    /\ ret.exc = None
    /\ functions[ret.args[1]].identifier = "fabs"
    /\ Cardinality(memo[ret.args[1]]) = 1
    /\ Len(builds[ret.args[1]]) = 1

\* The mapping of the base registry as _make_bfr left it.
C14_Alone == {[key |-> C13_Base[i].id, value |-> i] : i \in DOMAIN C13_Base}

\* C14: while threads call into it, the shared registry maps what it mapped
\* when the first thread started.
C14_SharedMapping ==
    (pc = "ready") => Mapping(base_function_registry) = C14_Alone

\* C14: a lookup or membership test a thread made on the shared registry gave
\* what it gives with no other thread: the instance _make_bfr bound, the
\* FunctionNotFound error for an identifier it did not bind, and whether it
\* bound the identifier.
C14_LookupAsAlone ==
    \A t \in Threads :
        LET out == threads[t].out
        IN  /\ (out.op = "getitem") =>
                  IF DictHas(C14_Alone, out.args[2])
                  THEN /\ out.exc = None
                       /\ out.val = DictGet(C14_Alone, out.args[2])
                  ELSE /\ out.exc = "FunctionNotFound"
                       /\ out.val = None
            /\ (out.op = "contains") =>
                  /\ out.exc = None
                  /\ out.val = DictHas(C14_Alone, out.args[2])

\* C14: a thread's register is rejected exactly when the shared registry binds
\* the identifier; the registry it returns otherwise maps what the shared
\* registry maps and the thread's own function, and no function of another
\* thread.
C14_OwnEntryOnly ==
    \A t \in Threads :
        LET out == threads[t].out
            function == threads[t].function
        IN  (threads[t].pc = "done" /\ out.op = "register") =>
                /\ out.args = <<base_function_registry, function>>
                /\ (out.exc # None) <=>
                       DictHas(C14_Alone, functions[function].identifier)
                /\ (out.exc = None) =>
                       /\ out.val # base_function_registry
                       /\ Mapping(out.val) =
                              C14_Alone \cup
                                  {[key |-> functions[function].identifier,
                                    value |-> function]}
                       /\ \A u \in Threads \ {t} : \A e \in Mapping(out.val) :
                              e.value # threads[u].function

\* C14: no step of a thread changes the shared registry or a registry a
\* register has returned.
C14_RegistriesKept ==
    (pc = "ready") =>
        \A r \in DOMAIN registries :
            /\ registries'[r] = registries[r]
            /\ dicts'[registries[r].id_to_function] = Mapping(r)

\* C14: threads share a registry without locking.
C14_ConcurrentSharing ==
    /\ [](C14_SharedMapping /\ C14_LookupAsAlone /\ C14_OwnEntryOnly)
    /\ [][C14_RegistriesKept]_vars

\* C14 witness: thread u copied the shared registry's dict and set "myfunc" in
\* its copy before thread t copied, t's register has returned and u's has
\* not, and meanwhile the lookup of "myfunc" by a third thread on the shared
\* registry has failed.
C14_Witness ==
    \E t, u, v \in Threads :
        /\ threads[t].pc = "done"
        /\ threads[t].out.op = "register"
        /\ threads[t].out.exc = None
        /\ threads[u].pc = "register_return"
        /\ functions[threads[u].function].identifier = "myfunc"
        /\ threads[u].id_to_function <
               registries[threads[t].out.val].id_to_function
        /\ threads[v].pc = "done"
        /\ threads[v].out.op = "getitem"
        /\ threads[v].out.args[2] = "myfunc"
        /\ threads[v].out.exc = "FunctionNotFound"

\* The calls threads made or are making on instance f.
C15_Callers(f) ==
    {t \in Threads : threads[t].out.op = "call" /\ threads[t].out.args[1] = f}

\* C15 as claimed: whatever the threads do, one kernel is built for an
\* instance, and every invocation that returned ran that kernel.
C15_BuiltOnce ==
    \A f \in DOMAIN functions :
        /\ Len(builds[f]) <= 1
        /\ \A t \in C15_Callers(f) :
               (threads[t].pc = "done") => threads[t].out.val.knl.id = <<f, 1>>

\* C15, amended: an instance has had as many kernels built as threads have
\* found its key absent and run knl's body; its cache holds at most one
\* entry, under the key of its operation, and the entry is one of the kernels
\* built for it; an invocation that returned ran a kernel built for the
\* instance and its operation.
C15_OnePerMiss ==
    \A f \in DOMAIN functions :
        /\ Len(builds[f]) =
               Cardinality({t \in C15_Callers(f) :
                               /\ threads[t].out.built
                               /\ threads[t].pc # "knl_build"})
        /\ \A e1, e2 \in memo[f] : e1 = e2
        /\ \A e \in memo[f] :
               /\ e.key = "map_call_knl_" \o C7_Operation(functions[f].identifier)
               /\ e.value.id[1] = f
               /\ e.value.id[2] \in DOMAIN builds[f]
        /\ \A t \in C15_Callers(f) :
               (threads[t].pc = "done") =>
                   /\ threads[t].out.exc = None
                   /\ threads[t].out.val.knl.op =
                          C7_Operation(functions[f].identifier)
                   /\ threads[t].out.val.knl.id[1] = f
                   /\ threads[t].out.val.knl.id[2] \in DOMAIN builds[f]
                   /\ threads[t].out.val.queue = ThreadQueue(t)

\* C15, amended: a thread that finds the key present takes the cached kernel
\* and builds nothing; a thread that found it absent builds a kernel of its
\* own, whatever was installed since, installs it in place of what is there,
\* and runs it.
C15_MissBuildsAndInstalls ==
    \A t \in Threads :
        LET f == threads'[t].out.args[1]
            from == threads[t].pc
            to == threads'[t].pc
        IN  /\ (from = "idle" /\ to = "knl_run") =>
                   /\ memo[f] # {}
                   /\ \A e \in memo[f] : threads'[t].knl = e.value
                   /\ ~threads'[t].out.built
                   /\ builds' = builds /\ memo' = memo
            /\ (from = "idle" /\ to = "knl_build") =>
                   /\ memo[f] = {}
                   /\ builds' = builds /\ memo' = memo
            /\ (from = "knl_build" /\ to = "knl_store") =>
                   /\ Len(builds'[f]) = Len(builds[f]) + 1
                   /\ threads'[t].knl.id = <<f, Len(builds'[f])>>
                   /\ memo' = memo
            /\ (from = "knl_store" /\ to = "knl_run") =>
                   /\ memo'[f] =
                          {[key |-> "map_call_knl_" \o
                                       C7_Operation(functions[f].identifier),
                            value |-> threads[t].knl]}
                   /\ threads'[t].knl = threads[t].knl
                   /\ builds' = builds
            /\ (from = "knl_run" /\ to = "done") =>
                   /\ threads'[t].out.val.knl = threads[t].knl
                   /\ builds' = builds /\ memo' = memo

\* C15, amended: the cache is not guarded against concurrent first use.
C15_UnguardedFirstUse ==
    [](C15_OnePerMiss) /\ [][C15_MissBuildsAndInstalls]_vars

\* C15 witness: two threads each built and ran a kernel of their own for the
\* same instance, and a third, which looked the key up after an install, ran
\* the kernel the cache now holds without building.
C15_Witness ==
    \E t, u, v \in Threads : \E f \in DOMAIN functions :
        /\ {t, u, v} \subseteq C15_Callers(f)
        /\ threads[t].pc = "done" /\ threads[u].pc = "done"
        /\ threads[v].pc = "done"
        /\ threads[t].out.built /\ threads[u].out.built
        /\ ~threads[v].out.built
        /\ threads[t].out.val.knl # threads[u].out.val.knl
        /\ memo[f] = {[key |-> "map_call_knl_abs",
                       value |-> threads[v].out.val.knl]}

====
